---- MODULE Spec2Model ----
(***************************************************************************)
(* A model of the SOLDIER interpreter: the PEG grammar (parser.rs), the    *)
(* tree-walking evaluator (interp.rs) and the reassembler (reassemble.rs). *)
(*                                                                         *)
(* Strings are sequences of one-character strings.  An i128 is a sequence  *)
(* of 16-bit limbs, least significant first, in two's complement, so that  *)
(* the full width of the type is kept although TLC's integers are 32 bits. *)
(***************************************************************************)
EXTENDS Integers, Sequences, FiniteSets, TLC

(***************************************************************************)
(* Strings                                                                 *)
(***************************************************************************)
Chars(s) == [i \in 1..Len(s) |-> SubSeq(s, i, i)]

None == <<>>
Some(x) == <<x>>

Lower == {"a","b","c","d","e","f","g","h","i","j","k","l","m",
          "n","o","p","q","r","s","t","u","v","w","x","y","z"}
Upper == {"A","B","C","D","E","F","G","H","I","J","K","L","M",
          "N","O","P","Q","R","S","T","U","V","W","X","Y","Z"}
Digits == <<"0","1","2","3","4","5","6","7","8","9">>
DigitSet == {Digits[i] : i \in 1..10}
DigitVal(c) == (CHOOSE i \in 1..10 : Digits[i] = c) - 1

RECURSIVE Concat(_)
Concat(ss) == IF ss = <<>> THEN <<>> ELSE Head(ss) \o Concat(Tail(ss))

StartsWith(s, p) == Len(s) >= Len(p) /\ SubSeq(s, 1, Len(p)) = p
Drop(s, n) == SubSeq(s, n + 1, Len(s))

(***************************************************************************)
(* i128 as limbs                                                           *)
(***************************************************************************)
I128Bits == 128
UsizeBits == 64
Base == 2^16
NLimbs == I128Bits \div 16
UsizeLimbs == UsizeBits \div 16

Zero128 == [k \in 1..NLimbs |-> 0]
IntOfNat(n) == [k \in 1..NLimbs |-> IF k = 1 THEN n % Base
                                    ELSE IF k = 2 THEN n \div Base ELSE 0]
IsNegative(a) == a[NLimbs] >= Base \div 2

\* a * m + c on the 128-bit pattern, with the carry out of the top limb.
RECURSIVE MulAddFrom(_, _, _, _)
MulAddFrom(a, m, c, k) ==
    IF k > NLimbs THEN [limbs |-> <<>>, carry |-> c]
    ELSE LET t == a[k] * m + c
             rest == MulAddFrom(a, m, t \div Base, k + 1)
         IN [limbs |-> <<t % Base>> \o rest.limbs, carry |-> rest.carry]
MulAdd(a, m, c) == MulAddFrom(a, m, c, 1)

\* a + b on the 128-bit pattern (wrapping).
RECURSIVE AddFrom(_, _, _, _)
AddFrom(a, b, c, k) ==
    IF k > NLimbs THEN <<>>
    ELSE LET t == a[k] + b[k] + c
         IN <<t % Base>> \o AddFrom(a, b, t \div Base, k + 1)
WrappingAdd(a, b) == AddFrom(a, b, 0, 1)
AddOverflows(a, b) ==
    /\ IsNegative(a) = IsNegative(b)
    /\ IsNegative(WrappingAdd(a, b)) # IsNegative(a)

\* The magnitude of a negative value, as an unsigned 128-bit pattern.
Magnitude(a) ==
    IF IsNegative(a)
    THEN WrappingAdd([k \in 1..NLimbs |-> Base - 1 - a[k]], IntOfNat(1))
    ELSE a

\* Unsigned division of the pattern by a small d, from the top limb down.
RECURSIVE DivFrom(_, _, _, _)
DivFrom(a, d, r, k) ==
    IF k = 0 THEN [limbs |-> <<>>, rem |-> r]
    ELSE LET t == r * Base + a[k]
             rest == DivFrom(a, d, t % d, k - 1)
         IN [limbs |-> rest.limbs \o <<t \div d>>, rem |-> rest.rem]
DivSmall(a, d) == DivFrom(a, d, 0, NLimbs)

\* i128::to_string: decimal digits, "-" first for a negative value.
RECURSIVE UDecimal(_)
UDecimal(a) ==
    LET q == DivSmall(a, 10)
    IN (IF q.limbs = Zero128 THEN <<>> ELSE UDecimal(q.limbs))
         \o <<Digits[q.rem + 1]>>
to_string(a) == IF IsNegative(a) THEN <<"-">> \o UDecimal(Magnitude(a))
                ELSE UDecimal(a)

\* str::parse::<i128> on a run of decimal digits: None on overflow.
RECURSIVE ParseFrom(_, _, _)
ParseFrom(ds, k, acc) ==
    IF k > Len(ds) THEN Some(acc)
    ELSE LET r == MulAdd(acc, 10, DigitVal(ds[k]))
         IN IF r.carry # 0 \/ IsNegative(r.limbs) THEN None
            ELSE ParseFrom(ds, k + 1, r.limbs)
parse_i128(ds) == ParseFrom(ds, 1, Zero128)

\* `index as usize` on a 64-bit target: the low 64 bits of the pattern.
as_usize(a) == SubSeq(a, 1, UsizeLimbs)

(***************************************************************************)
(* The program tree (parser.rs) and the runtime values (interp.rs)         *)
(***************************************************************************)
CommentRef(name) == [tag |-> "CommentRef", name |-> name]
VarRef(name) == [tag |-> "VarRef", name |-> name]

Block(exprs) == [tag |-> "Block", exprs |-> exprs]
Comment(name, body) == [tag |-> "Comment", name |-> name, body |-> body]
Assignment(ref, expr) == [tag |-> "Assignment", ref |-> ref, expr |-> expr]
IntLiteral(n) == [tag |-> "IntLiteral", n |-> n]
Ref(ref) == [tag |-> "Ref", ref |-> ref]
FunctionCall(ref, args) == [tag |-> "FunctionCall", ref |-> ref, args |-> args]
While(cond, block) == [tag |-> "While", cond |-> cond, block |-> block]
If(cond, block) == [tag |-> "If", cond |-> cond, block |-> block]
Program(block) == [block |-> block]

(***************************************************************************)
(* The grammar (parser.rs, peg::parser!).  A rule takes the text s and a   *)
(* position p and yields [ok, panic, pos, val]; panic is the unwrap() of   *)
(* the integer rule on a literal that does not fit an i128.                *)
(***************************************************************************)
Fail == [ok |-> FALSE, panic |-> FALSE, pos |-> 0, val |-> <<>>]
Panic == [ok |-> FALSE, panic |-> TRUE, pos |-> 0, val |-> <<>>]
Matched(p, v) == [ok |-> TRUE, panic |-> FALSE, pos |-> p, val |-> v]
OrElse(r1, r2) == IF r1.ok \/ r1.panic THEN r1 ELSE r2

At(s, p) == IF p <= Len(s) THEN s[p] ELSE ""
literal(s, p, lit) ==
    IF p + Len(lit) - 1 <= Len(s) /\ SubSeq(s, p, p + Len(lit) - 1) = lit
    THEN Matched(p + Len(lit), lit) ELSE Fail

newline(s, p) ==
    OrElse(literal(s, p, <<"\n">>), literal(s, p, <<"\r", "\n">>))

\* whitespace() = (nbspace() / newline())+ : the end of the longest run.
RECURSIVE SkipWhitespace(_, _)
SkipWhitespace(s, p) ==
    IF At(s, p) \in {" ", "\t"} THEN SkipWhitespace(s, p + 1)
    ELSE IF newline(s, p).ok THEN SkipWhitespace(s, newline(s, p).pos)
    ELSE p
whitespace(s, p) ==
    IF SkipWhitespace(s, p) > p THEN Matched(SkipWhitespace(s, p), <<>>) ELSE Fail

RECURSIVE RunEnd(_, _, _)
RunEnd(s, p, class) ==
    IF At(s, p) \in class THEN RunEnd(s, p + 1, class) ELSE p

\* The text from p up to q, matched.
Span(s, p, q) == Matched(q, SubSeq(s, p, q - 1))
\* r, and then K of what it matched: a sequence e1 e2 of the grammar.
Then(r, K(_)) == IF r.ok THEN K(r) ELSE r
Cons(first, rest) == Matched(rest.pos, <<first.val>> \o rest.val)

ident(s, p) ==
    IF At(s, p) \in Lower \cup Upper \cup {"_"}
    THEN Span(s, p, RunEnd(s, p, Lower \cup Upper \cup {"_"} \cup DigitSet))
    ELSE Fail

comment_ident(s, p) ==
    IF At(s, p) = "#" THEN ident(s, p + 1) ELSE Fail

var_ref(s, p) ==
    Then(ident(s, p), LAMBDA r : Matched(r.pos, VarRef(r.val)))
comment_ref(s, p) ==
    Then(comment_ident(s, p), LAMBDA r : Matched(r.pos, CommentRef(r.val)))
ref_ref(s, p) == OrElse(var_ref(s, p), comment_ref(s, p))
ref(s, p) ==
    Then(ref_ref(s, p), LAMBDA r : Matched(r.pos, Ref(r.val)))

\* num.parse().unwrap()
int_literal(q, n) == IF n = None THEN Panic ELSE Matched(q, IntLiteral(n[1]))
int_digits(s, p, q) == int_literal(q, parse_i128(SubSeq(s, p, q - 1)))
int(s, p) ==
    IF At(s, p) \in DigitSet \ {"0"}
    THEN int_digits(s, p, RunEnd(s, p, DigitSet))
    ELSE Fail

\* str::trim_start_matches("//") and str::trim_start.
RECURSIVE trim_start_matches(_, _)
trim_start_matches(c, pat) ==
    IF StartsWith(c, pat) THEN trim_start_matches(Drop(c, Len(pat)), pat) ELSE c
RECURSIVE trim_start(_)
trim_start(c) ==
    IF c # <<>> /\ Head(c) \in {" ", "\t", "\n", "\r"}
    THEN trim_start(Tail(c)) ELSE c

\* Itertools::join.
RECURSIVE join(_, _)
join(ss, sep) ==
    IF ss = <<>> THEN <<>>
    ELSE IF Len(ss) = 1 THEN ss[1]
    ELSE ss[1] \o sep \o join(Tail(ss), sep)

RECURSIVE comment_string(_, _)
RECURSIVE following_comment(_, _)
RECURSIVE following_comments(_, _)
\* The body from b0 up to the end of the line b1, joined to what follows.
comment_lines(s, b0, b1) ==
    Then(following_comments(s, b1),
         LAMBDA following :
           Matched(following.pos,
                   join(<<SubSeq(s, b0, b1 - 1)>> \o following.val, <<" ">>)))
comment_body(s, b0) ==
    comment_lines(s, b0, RunEnd(s, b0, {s[i] : i \in 1..Len(s)} \ {"\r", "\n"}))
comment_string(s, p) ==
    IF literal(s, p, <<"/", "/">>).ok
    THEN comment_body(s, SkipWhitespace(s, p + 2))
    ELSE Fail
\* The action of following_comment on the string c of the next line.
continuation(c) ==
    IF StartsWith(c, <<"/", "/">>)
    THEN <<"\n", "\n">> \o trim_start(trim_start_matches(c, <<"/", "/">>))
    ELSE c
following_comment(s, p) ==
    Then(newline(s, p),
         LAMBDA nl : Then(comment_string(s, nl.pos),
                          LAMBDA c : Matched(c.pos, continuation(c.val))))
\* following_comment()* : every match, in order.
following_comments(s, p) ==
    OrElse(Then(following_comment(s, p),
                LAMBDA f : Cons(f, following_comments(s, f.pos))),
           Matched(p, <<>>))

named_comment(s, p) ==
    IF literal(s, p, <<"/", "/">>).ok
    THEN Then(comment_ident(s, SkipWhitespace(s, p + 2)),
              LAMBDA name :
                OrElse(Then(following_comment(s, name.pos),
                            LAMBDA body :
                              Matched(body.pos, Comment(Some(name.val), body.val))),
                       Matched(name.pos, Comment(Some(name.val), <<>>))))
    ELSE Fail
anon_comment(s, p) ==
    Then(comment_string(s, p),
         LAMBDA body : Matched(body.pos, Comment(None, body.val)))
comment(s, p) == OrElse(named_comment(s, p), anon_comment(s, p))

comma(s, p) ==
    IF At(s, SkipWhitespace(s, p)) = ","
    THEN Matched(SkipWhitespace(s, SkipWhitespace(s, p) + 1), <<>>)
    ELSE Fail

RECURSIVE expr(_, _)
RECURSIVE SeparatedFrom(_, _, _)

Separator(s, p, byComma) == IF byComma THEN comma(s, p) ELSE whitespace(s, p)
\* The tail of  expr() ** sep : (sep expr)* after a first expr.  A panic of
\* an expr is the result; a failure ends the repetition before its separator.
ConsPanic(first, rest) == IF rest.panic THEN rest ELSE Cons(first, rest)
SeparatedFrom(s, p, byComma) ==
    OrElse(Then(Separator(s, p, byComma),
                LAMBDA sp :
                  Then(expr(s, sp.pos),
                       LAMBDA e : ConsPanic(e, SeparatedFrom(s, e.pos, byComma)))),
           Matched(p, <<>>))
\* expr() ** sep : zero or more expressions.
Separated(s, p, byComma) ==
    OrElse(Then(expr(s, p),
                LAMBDA e : ConsPanic(e, SeparatedFrom(s, e.pos, byComma))),
           Matched(p, <<>>))

assignment(s, p) ==
    IF literal(s, p, <<"l", "e", "t">>).ok
    THEN Then(whitespace(s, p + 3), LAMBDA w1 :
         Then(ref_ref(s, w1.pos), LAMBDA r :
         Then(whitespace(s, r.pos), LAMBDA w2 :
         Then(literal(s, w2.pos, <<"=">>), LAMBDA eq :
         Then(whitespace(s, eq.pos), LAMBDA w3 :
         Then(expr(s, w3.pos), LAMBDA e :
              Matched(e.pos, Assignment(r.val, e.val))))))))
    ELSE Fail

func_call(s, p) ==
    Then(var_ref(s, p), LAMBDA r :
    Then(literal(s, r.pos, <<"(">>), LAMBDA open :
    Then(Separated(s, SkipWhitespace(s, open.pos), TRUE), LAMBDA args :
    Then(literal(s, SkipWhitespace(s, args.pos), <<")">>), LAMBDA close :
         Matched(close.pos, FunctionCall(r.val, args.val))))))

expr(s, p) ==
    OrElse(comment(s, p),
    OrElse(assignment(s, p),
    OrElse(int(s, p),
    OrElse(func_call(s, p),
           ref(s, p)))))

block(s, p) ==
    Then(whitespace(s, p), LAMBDA w1 :
    Then(Separated(s, w1.pos, FALSE), LAMBDA exprs :
    Then(whitespace(s, exprs.pos), LAMBDA w2 :
         Matched(w2.pos, Block(exprs.val)))))

\* The rule is defined by the grammar, and no alternative of expr() names it.
while_loop(s, p) ==
    Then(literal(s, p, Chars("while(")), LAMBDA kw :
    Then(expr(s, SkipWhitespace(s, kw.pos)), LAMBDA cond :
    Then(literal(s, cond.pos, <<")">>), LAMBDA close :
    Then(literal(s, SkipWhitespace(s, close.pos), <<"{">>), LAMBDA open :
    Then(block(s, SkipWhitespace(s, open.pos)), LAMBDA body :
    Then(literal(s, SkipWhitespace(s, body.pos), <<"}">>), LAMBDA end :
         Matched(end.pos, While(cond.val, body.val))))))))

\* parser::program: the whole input must be matched.
whole(s, b) == IF b.pos = Len(s) + 1 THEN Matched(b.pos, Program(b.val)) ELSE Fail
program(s) == Then(block(s, 1), LAMBDA b : whole(s, b))

(***************************************************************************)
(* Values and results (interp.rs)                                          *)
(***************************************************************************)
VString(s) == [tag |-> "String", s |-> s]
VMap(m) == [tag |-> "Map", m |-> m]
VInt(n) == [tag |-> "Int", n |-> n]
VFunction(f) == [tag |-> "Function", f |-> f]
VBool(b) == [tag |-> "Bool", b |-> b]

\* anyhow::Result: an error is its message and the values formatted into it.
Ok(v) == [ok |-> TRUE, val |-> v]
Err(msg, args) == [ok |-> FALSE, err |-> [msg |-> msg, args |-> args]]

\* The byte of each ASCII character, as a table from byte + 1 to character
\* (a control character without a TLA+ escape is written in caret notation,
\* the grave accent by its name).
Ascii == <<
    "^@", "^A", "^B", "^C", "^D", "^E", "^F", "^G", "^H", "\t", "\n", "^K", "^L", "\r", "^N", "^O",
    "^P", "^Q", "^R", "^S", "^T", "^U", "^V", "^W", "^X", "^Y", "^Z", "^[", "^\\", "^]", "^^", "^_",
    " ", "!", "\"", "#", "$", "%", "&", "'", "(", ")", "*", "+", ",", "-", ".", "/",
    "0", "1", "2", "3", "4", "5", "6", "7", "8", "9", ":", ";", "<", "=", ">", "?",
    "@", "A", "B", "C", "D", "E", "F", "G", "H", "I", "J", "K", "L", "M", "N", "O",
    "P", "Q", "R", "S", "T", "U", "V", "W", "X", "Y", "Z", "[", "\\", "]", "^", "_",
    "GRAVE", "a", "b", "c", "d", "e", "f", "g", "h", "i", "j", "k", "l", "m", "n", "o",
    "p", "q", "r", "s", "t", "u", "v", "w", "x", "y", "z", "{", "|", "}", "~", "^?" >>
Code(c) == (CHOOSE i \in 1..Len(Ascii) : Ascii[i] = c) - 1

as_func(v) ==
    IF v.tag = "Function" THEN Ok(v.f) ELSE Err("is not a function", <<v>>)
as_num(v) ==
    IF v.tag = "Int" THEN Ok(v.n) ELSE Err("is not an integer", <<v>>)
as_bool(v) ==
    IF v.tag = "Bool" THEN Ok(v.b) ELSE Err("is not a bool", <<v>>)
as_str(v) ==
    IF v.tag = "String" THEN Ok(v.s) ELSE Err("is not a String", <<v>>)

get_arg(args, n) ==
    IF n < Len(args) THEN Ok(args[n + 1])
    ELSE Err("not enough arguments", <<VInt(IntOfNat(n)), VInt(IntOfNat(Len(args)))>>)

\* Interpreter::new: the scope every evaluation starts from.
BuiltinScope ==
    (Chars("add") :> VFunction("AddBuiltin")) @@
    (Chars("eq") :> VFunction("EqBuiltin")) @@
    (Chars("not") :> VFunction("NotBuiltin")) @@
    (Chars("print") :> VFunction("PrintBuiltin")) @@
    (Chars("show") :> VFunction("ShowBuiltin")) @@
    (Chars("chr") :> VFunction("ChrBuiltin")) @@
    (Chars("cat") :> VFunction("CatBuiltin")) @@
    (Chars("true") :> VBool(TRUE)) @@
    (Chars("false") :> VBool(FALSE))
NoComments == [name \in {} |-> <<>>]

(***************************************************************************)
(* The builtins.  A call yields the set of outcomes the build can show:    *)
(* [res, printed, panic]; only the overflow of add has more than one (a    *)
(* debug build panics, a release build wraps).                             *)
(***************************************************************************)
Returns(res) == {[res |-> res, printed |-> <<>>, panic |-> FALSE]}

AddBuiltin(args) ==
    LET a0 == get_arg(args, 0)
        lhs == as_num(a0.val)
        a1 == get_arg(args, 1)
        rhs == as_num(a1.val)
    IN IF ~a0.ok THEN Returns(a0)
       ELSE IF ~lhs.ok THEN Returns(lhs)
       ELSE IF ~a1.ok THEN Returns(a1)
       ELSE IF ~rhs.ok THEN Returns(rhs)
       ELSE IF AddOverflows(lhs.val, rhs.val)
       THEN Returns(Ok(VInt(WrappingAdd(lhs.val, rhs.val))))
              \cup {[res |-> Ok(VBool(FALSE)), printed |-> <<>>, panic |-> TRUE]}
       ELSE Returns(Ok(VInt(WrappingAdd(lhs.val, rhs.val))))

EqBuiltin(args) ==
    LET lhs == get_arg(args, 0)
        rhs == get_arg(args, 1)
    IN IF ~lhs.ok THEN Returns(lhs)
       ELSE IF ~rhs.ok THEN Returns(rhs)
       ELSE Returns(Ok(VBool(lhs.val = rhs.val)))

NotBuiltin(args) ==
    LET a0 == get_arg(args, 0)
        val == as_bool(a0.val)
    IN IF ~a0.ok THEN Returns(a0)
       ELSE IF ~val.ok THEN Returns(val)
       ELSE Returns(Ok(VBool(~val.val)))

PrintBuiltin(args) ==
    LET val == get_arg(args, 0)
    IN IF ~val.ok THEN Returns(val)
       ELSE {[res |-> val, printed |-> <<val.val>>, panic |-> FALSE]}

RECURSIVE CatFrom(_, _, _)
CatFrom(args, k, acc) ==
    IF k > Len(args) THEN Ok(VString(acc))
    ELSE IF ~as_str(args[k]).ok THEN as_str(args[k])
    ELSE CatFrom(args, k + 1, acc \o as_str(args[k]).val)
CatBuiltin(args) == Returns(CatFrom(args, 1, <<>>))

ChrBuiltin(args) ==
    LET a0 == get_arg(args, 0)
        n == as_num(a0.val)
        val == n.val[1] % 256
    IN IF ~a0.ok THEN Returns(a0)
       ELSE IF ~n.ok THEN Returns(n)
       ELSE IF val >= 128 THEN Returns(Err("invalid utf-8 sequence", <<>>))
       ELSE Returns(Ok(VString(<<Ascii[val + 1]>>)))

ShowBuiltin(args) ==
    LET val == get_arg(args, 0)
    IN IF ~val.ok THEN Returns(val)
       ELSE Returns(Ok(VString(
              CASE val.val.tag = "String" -> val.val.s
                [] val.val.tag = "Map" -> Chars("{}")
                [] val.val.tag = "Int" -> to_string(val.val.n)
                [] val.val.tag = "Function" -> Chars("<function>")
                [] val.val.tag = "Bool" ->
                     IF val.val.b THEN Chars("true") ELSE Chars("false"))))

\* Function::call, dispatched on the builtin a Function value holds.
call(f, args) ==
    CASE f = "AddBuiltin" -> AddBuiltin(args)
      [] f = "EqBuiltin" -> EqBuiltin(args)
      [] f = "NotBuiltin" -> NotBuiltin(args)
      [] f = "PrintBuiltin" -> PrintBuiltin(args)
      [] f = "ShowBuiltin" -> ShowBuiltin(args)
      [] f = "ChrBuiltin" -> ChrBuiltin(args)
      [] f = "CatBuiltin" -> CatBuiltin(args)

(***************************************************************************)
(* The help text (interp.rs, generate_help_text)                           *)
(***************************************************************************)
WELCOME_TEXT ==
    Chars("Help for the Zac Programming Language (https://github.com/sumeet/Zac)\n\n")
    \o Chars("Define a comment with the first line set to an identifier (like #help) ")
    \o Chars("and it will be a first-class\nstring usable inside of your program. ")
    \o Chars("You can read from it, and if you write to it, the change will\n")
    \o Chars("be reflected inside the source file.")
CHUNK_SIZE == 10

\* The order of a BTreeMap<String, _>: byte-wise lexicographic.
RECURSIVE Before(_, _)
Before(a, b) ==
    IF a = <<>> THEN b # <<>>
    ELSE IF b = <<>> THEN FALSE
    ELSE IF Head(a) = Head(b) THEN Before(Tail(a), Tail(b))
    ELSE Code(Head(a)) < Code(Head(b))
RECURSIVE Sorted(_)
Sorted(names) ==
    IF names = {} THEN <<>>
    ELSE LET first == CHOOSE n \in names : \A m \in names \ {n} : Before(n, m)
         IN <<first>> \o Sorted(names \ {first})

RECURSIVE chunks(_, _)
chunks(names, size) ==
    IF names = <<>> THEN <<>>
    ELSE IF Len(names) <= size THEN <<names>>
    ELSE <<SubSeq(names, 1, size)>> \o chunks(Drop(names, size), size)

Spaces(n) == [i \in 1..n |-> " "]
Max(S) == IF S = {} THEN 0 ELSE CHOOSE m \in S : \A k \in S : k <= m
\* Table::to_string under FORMAT_CLEAN: no borders, each cell padded by one
\* space on both sides and to the width of its column, one row per line.
tableize(names) ==
    LET rows == chunks(names, CHUNK_SIZE)
        width(j) == Max({Len(rows[i][j]) : i \in {i \in 1..Len(rows) : j <= Len(rows[i])}})
        cell(i, j) == LET c == IF j <= Len(rows[i]) THEN rows[i][j] ELSE <<>>
                      IN <<" ">> \o c \o Spaces(width(j) - Len(c)) \o <<" ">>
        ncols == Max({Len(rows[i]) : i \in 1..Len(rows)})
    IN Concat([i \in 1..Len(rows) |->
                 Concat([j \in 1..ncols |-> cell(i, j)]) \o <<"\n">>])

RECURSIVE trim_end(_)
trim_end(txt) ==
    IF txt # <<>> /\ txt[Len(txt)] \in {" ", "\t", "\n", "\r"}
    THEN trim_end(SubSeq(txt, 1, Len(txt) - 1)) ELSE txt

generate_help_text(scope) ==
    LET function_names == Sorted({n \in DOMAIN scope : as_func(scope[n]).ok})
        variable_names == Sorted({n \in DOMAIN scope : ~as_func(scope[n]).ok})
    IN trim_end(WELCOME_TEXT
                \o Chars("\n\nBuiltin functions:\n")
                \o tableize(function_names)
                \o Chars("\nAvailable variables\n")
                \o tableize(variable_names))

\* Defined by interp.rs and called by none of its code.
builtin_comment(scope, name) ==
    IF name = Chars("help") THEN Some(generate_help_text(scope)) ELSE None

(***************************************************************************)
(* Interpreter::add_comment, Interpreter::get_ref, find_comments           *)
(***************************************************************************)
\* add_comment without the contains_key test: the later body replaces the first.
add_comment_overwriting(comments, c) ==
    IF c.name # None
    THEN [res |-> Ok(<<>>),
          comments |-> [n \in DOMAIN comments \cup {c.name[1]} |->
                          IF n = c.name[1] THEN c.body ELSE comments[n]]]
    ELSE [res |-> Ok(<<>>), comments |-> comments]

\* [res, comments]: the result and the table after the call.
add_comment(comments, c) ==
    IF c.name # None
    THEN IF c.name[1] \in DOMAIN comments
         THEN [res |-> Err("duplicate comment", <<VString(c.name[1])>>),
               comments |-> comments]
         ELSE [res |-> Ok(<<>>),
               comments |-> (c.name[1] :> c.body) @@ comments]
    ELSE [res |-> Ok(<<>>), comments |-> comments]

get_ref(scope, comments, r) ==
    IF r.tag = "CommentRef"
    THEN IF r.name \in DOMAIN comments
         THEN Ok(VString(comments[r.name]))
         ELSE Err("undefined comment", <<VString(r.name)>>)
    ELSE IF r.name \in DOMAIN scope
         THEN Ok(scope[r.name])
         ELSE Err("undefined name", <<VString(r.name)>>)

RECURSIVE find_expr_comments(_)
RECURSIVE find_if_comments(_)
find_each(exprs) == Concat([i \in 1..Len(exprs) |-> find_expr_comments(exprs[i])])
find_expr_comments(e) ==
    CASE e.tag = "Block" -> find_each(e.exprs)
      [] e.tag = "Comment" -> <<e>>
      [] e.tag = "Assignment" -> find_expr_comments(e.expr)
      [] e.tag = "FunctionCall" -> find_each(e.args)
      [] e.tag = "While" -> find_expr_comments(e.cond) \o find_each(e.block.exprs)
      [] e.tag \in {"Ref", "IntLiteral"} -> <<>>
      [] e.tag = "If" -> find_if_comments(e)
\* parser.rs has no If variant, and so no arm for the one interp.rs evaluates:
\* the scan of an If follows the scan of a While.
find_if_comments(e) == find_expr_comments(e.cond) \o find_each(e.block.exprs)
find_comments(prog) == find_each(prog.block.exprs)

(***************************************************************************)
(* The reassembler (reassemble.rs)                                         *)
(***************************************************************************)
\* str::lines: split at "\n", a "\r" before it dropped, no last empty line.
RECURSIVE SplitLines(_, _)
SplitLines(body, line) ==
    IF body = <<>> THEN (IF line = <<>> THEN <<>> ELSE <<line>>)
    ELSE IF Head(body) = "\n"
    THEN <<IF line # <<>> /\ line[Len(line)] = "\r"
           THEN SubSeq(line, 1, Len(line) - 1) ELSE line>>
           \o SplitLines(Tail(body), <<>>)
    ELSE SplitLines(Tail(body), Append(line, Head(body)))
lines(body) == SplitLines(body, <<>>)

assemble_ref(r) ==
    IF r.tag = "CommentRef" THEN <<"#">> \o r.name ELSE r.name

\* The Comment arm: the lines of the body the node holds, each after "// ".
assemble_comment(c) ==
    join([i \in 1..Len(lines(c.body)) |-> Chars("// ") \o lines(c.body)[i]],
         <<"\n">>)

RECURSIVE assemble_expr(_)
assemble_each(exprs, after) ==
    Concat([i \in 1..Len(exprs) |-> assemble_expr(exprs[i]) \o after])
assemble_expr(e) ==
    CASE e.tag = "Block" -> assemble_each(e.exprs, <<"\n">>)
      [] e.tag = "Comment" -> assemble_comment(e)
      [] e.tag = "Assignment" ->
           \* the arm pushes the target's name, and no marker
           Chars("let ") \o e.ref.name \o Chars(" = ") \o assemble_expr(e.expr)
      [] e.tag = "IntLiteral" -> to_string(e.n)
      [] e.tag = "Ref" -> assemble_ref(e.ref)
      [] e.tag = "FunctionCall" ->
           assemble_ref(e.ref) \o <<"(">>
             \o join([i \in 1..Len(e.args) |-> assemble_expr(e.args[i])], <<",">>)
             \o <<")">>
      [] e.tag = "While" ->
           Chars("while (") \o assemble_expr(e.cond) \o Chars(") {\n")
             \o assemble_expr(e.block) \o Chars("\n}")
assemble_program(prog) == assemble_expr(prog.block)

\* assemble_expr has no arm for an If node.
RECURSIVE HasIf(_)
HasIf(e) ==
    CASE e.tag \in {"Block"} -> \E i \in 1..Len(e.exprs) : HasIf(e.exprs[i])
      [] e.tag = "Assignment" -> HasIf(e.expr)
      [] e.tag = "FunctionCall" -> \E i \in 1..Len(e.args) : HasIf(e.args[i])
      [] e.tag = "While" -> HasIf(e.cond) \/ HasIf(e.block)
      [] e.tag = "If" -> TRUE
      [] OTHER -> FALSE

(***************************************************************************)
(* The String arm of a call: s.chars().nth(index as usize)                 *)
(***************************************************************************)
nth(s, u) ==
    IF (\A k \in 2..Len(u) : u[k] = 0) /\ u[1] < Len(s)
    THEN Some(s[u[1] + 1]) ELSE None

index_string(s, args) ==
    LET a0 == get_arg(args, 0)
        index == as_num(a0.val)
        c == nth(s, as_usize(index.val))
    IN IF ~a0.ok THEN a0
       ELSE IF ~index.ok THEN index
       ELSE IF c # None THEN Ok(VString(<<c[1]>>)) ELSE Ok(VBool(FALSE))

\* The match on the called value, once the arguments are evaluated.
call_value(var, args) ==
    CASE var.tag = "Function" -> call(var.f, args)
      [] var.tag = "String" -> Returns(index_string(var.s, args))
      [] var.tag \in {"Bool", "Map", "Int"} ->
           Returns(Err("tried to call a", <<var>>))

(***************************************************************************)
(* The inputs: source texts for the parser, and trees built directly (the  *)
(* grammar yields no While and no If node).                                *)
(***************************************************************************)
MaxIter == 3

V(name) == Ref(VarRef(Chars(name)))
C(name) == Ref(CommentRef(Chars(name)))
Let(name, e) == Assignment(VarRef(Chars(name)), e)
LetC(name, e) == Assignment(CommentRef(Chars(name)), e)
Named(name, body) == Comment(Some(Chars(name)), Chars(body))
Anon(body) == Comment(None, Chars(body))
Num(n) == IntLiteral(IntOfNat(n))
Call(name, args) == FunctionCall(VarRef(Chars(name)), args)

Texts == {
    Chars(" 1 "),
    Chars("1"),
    Chars("\n// #c\n// old\nlet #c = // new\n#c\n"),
    Chars("\n// #c\n// old\nlet #c = 1\n"),
    Chars(" let #zz = // x\n"),
    Chars(" let #zz = 1 "),
    Chars(" let #c = // new\n\n// #c\n// old\n"),
    Chars("\n// #c\n// a\n\n// #c\n// b\n"),
    Chars(" let x = // #d\n\nprint(// #d\n) "),
    Chars("\n let s = // hi\n s(1) s(5) s(18446744073709551616) "),
    Chars(" let s = // hi\n s() "),
    Chars(" let s = // hi\n s(true) "),
    Chars(" #help "),
    Chars("\n// #help\n// mine\n\n#help\n"),
    Chars(" print(add(1,2)) show(70000) cat(// a\n,chr(104)) eq(1,1) not(true) "),
    Chars("\n// #c\n// old\nlet x = 1 let #c = // new\nnope let y = 2 "),
    Chars(" let x = 1 add(let z = 2, nope, let w = 3) "),
    Chars(" true(1) "),
    Chars(" nope(let x = 1) "),
    Chars(" chr(200) "),
    Chars(" 999999999999999999999999999999999999999999 "),
    Chars(" add(170141183460469231731687303715884105727,1) "),
    Chars(" // a\n// // b\n"),
    Chars("\n// #m\n// one\n// // two\n#m\n"),
    Chars(" let a = let true = 7 add(a, true) ") }

MinusOne == [k \in 1..NLimbs |-> Base - 1]
MinusTwo64 == [k \in 1..NLimbs |-> IF k <= UsizeLimbs THEN 0 ELSE Base - 1]

Trees == {
    Program(Block(<<>>)),
    Program(Block(<<While(V("false"), Block(<<>>))>>)),
    Program(Block(<<While(V("true"), Block(<<>>))>>)),
    Program(Block(<<While(V("true"), Block(<<Num(1)>>))>>)),
    Program(Block(<<Let("n", Num(1)),
                    While(V("true"), Block(<<Let("n", Call("add", <<V("n"), V("n")>>))>>))>>)),
    Program(Block(<<While(V("true"), Block(<<Let("x", Num(1)), V("nope")>>))>>)),
    Program(Block(<<While(Num(1), Block(<<Num(1)>>))>>)),
    Program(Block(<<Let("go", V("true")),
                    While(V("go"), Block(<<Let("go", V("false"))>>))>>)),
    Program(Block(<<Let("a", V("true")), Let("b", V("true")),
                    While(V("a"), Block(<<Named("c", "old"),
                                          LetC("c", Anon("new")),
                                          Let("a", V("b")),
                                          Let("b", V("false"))>>)),
                    C("c")>>)),
    Program(Block(<<Named("c", "old"),
                    While(V("true"), Block(<<LetC("c", Anon("new")), V("nope")>>))>>)),
    Program(Block(<<While(Named("d", ""), Block(<<Named("d", "x")>>))>>)),
    Program(Block(<<Call("print", <<Named("d", "x")>>),
                    While(V("false"), Block(<<Named("d", "y")>>))>>)),
    Program(Block(<<If(V("true"), Block(<<Let("x", Num(1))>>)), V("x")>>)),
    Program(Block(<<If(V("false"), Block(<<Let("x", Num(1))>>)), V("x")>>)),
    Program(Block(<<If(Num(1), Block(<<Num(1)>>))>>)),
    Program(Block(<<If(V("true"), Block(<<Let("add", Num(7))>>)), V("add")>>)),
    Program(Block(<<Let("x", Num(1)),
                    If(V("true"), Block(<<Let("y", Num(2)), V("nope"), Let("z", Num(3))>>)),
                    Let("w", Num(4))>>)),
    Program(Block(<<Let("s", Anon("hi")),
                    FunctionCall(VarRef(Chars("s")), <<IntLiteral(MinusOne)>>),
                    FunctionCall(VarRef(Chars("s")), <<IntLiteral(MinusTwo64)>>)>>)) }

Input == [text : Texts] \cup [tree : Trees]

(***************************************************************************)
(* The state                                                               *)
(***************************************************************************)
VARIABLES
    source,     \* Some(text) when the run starts from text
    ast,        \* Some(Program) once parsed or given
    pass,       \* 1: the input; 2: the reassembled text, parsed again
    phase,      \* the host's position
    pending,    \* the comments of find_comments not yet added
    comments,   \* Interpreter.comments
    scope,      \* Interpreter.scope
    console,    \* what print has written
    ctl,        \* the interp call in progress: an expression or a result
    stack,      \* the interp calls waiting for it
    result,     \* Some(result of the top-level interp call)
    assembled,  \* Some(text of assemble_program)
    first,      \* Some([result, comments]) of pass 1, kept for pass 2
    ev,         \* the step just taken, with what it read and returned
    calls,      \* the number of interp calls entered
    raised      \* Some([err, scope, comments, console, calls]) at the first error

vars == <<source, ast, pass, phase, pending, comments, scope, console,
          ctl, stack, result, assembled, first, ev, calls, raised>>

Idle == [mode |-> "idle"]
Eval(e) == [mode |-> "eval", expr |-> e]
Ret(res) == [mode |-> "ret", res |-> res]

Init ==
    /\ \E in \in Input :
         IF "text" \in DOMAIN in
         THEN source = Some(in.text) /\ ast = None /\ phase = "parse"
         ELSE source = None /\ ast = Some(in.tree) /\ phase = "new"
    /\ pass = 1
    /\ pending = <<>>
    /\ comments = NoComments
    /\ scope = BuiltinScope
    /\ console = <<>>
    /\ ctl = Idle
    /\ stack = <<>>
    /\ result = None
    /\ assembled = None
    /\ first = None
    /\ ev = [op |-> "init"]
    /\ calls = 0
    /\ raised = None

host == <<source, ast, pass, pending, result, assembled, first>>
interpreter == <<comments, scope, console>>

(***************************************************************************)
(* The host (spec section 6): parse, seed, evaluate, reassemble; then the  *)
(* round trip of section 8: parse the reassembled text and run it again.   *)
(***************************************************************************)
Parse ==
    /\ phase = "parse"
    /\ LET r == program(source[1])
       IN /\ ast' = IF r.ok THEN Some(r.val) ELSE None
          /\ phase' = IF r.ok THEN "new"
                      ELSE IF r.panic THEN "panicked" ELSE "parse_error"
          /\ ev' = [op |-> "parse", ok |-> r.ok]
    /\ UNCHANGED <<source, pass, pending, result, assembled, first>>
    /\ UNCHANGED <<interpreter, ctl, stack, calls, raised>>

\* Interpreter::new and find_comments.
New ==
    /\ phase = "new"
    /\ scope' = BuiltinScope
    /\ comments' = NoComments
    /\ pending' = find_comments(ast[1])
    /\ phase' = "seed"
    /\ ev' = [op |-> "new"]
    /\ UNCHANGED <<source, ast, pass, result, assembled, first>>
    /\ UNCHANGED <<console, ctl, stack, calls, raised>>

\* One add_comment of the seeding loop; the first failure ends the run.
Seed ==
    /\ phase = "seed"
    /\ pending # <<>>
    /\ LET r == add_comment(comments, Head(pending))
       IN /\ comments' = r.comments
          /\ phase' = IF r.res.ok THEN "seed" ELSE "seed_error"
          /\ result' = IF r.res.ok THEN result ELSE Some(r.res)
          /\ ev' = [op |-> "add_comment", comment |-> Head(pending),
                    before |-> comments, res |-> r.res]
    /\ pending' = Tail(pending)
    /\ UNCHANGED <<source, ast, pass, assembled, first>>
    /\ UNCHANGED <<scope, console, ctl, stack, calls, raised>>

\* The top-level call: interp(&Expr::Block(program.block)).
Start ==
    /\ phase = "seed"
    /\ pending = <<>>
    /\ phase' = "interp"
    /\ ctl' = Eval(ast[1].block)
    /\ stack' = <<>>
    /\ calls' = 0
    /\ raised' = None
    /\ ev' = [op |-> "start", seeded |-> DOMAIN comments]
    /\ UNCHANGED <<host, interpreter>>

Reassemble ==
    /\ phase = "evaluated"
    /\ pass = 1
    /\ ~HasIf(ast[1].block)
    /\ assembled' = Some(assemble_program(ast[1]))
    /\ phase' = "assembled"
    /\ ev' = [op |-> "assemble", nodes |-> find_comments(ast[1]),
              emitted |-> [i \in 1..Len(find_comments(ast[1])) |->
                             assemble_expr(find_comments(ast[1])[i])]]
    /\ UNCHANGED <<source, ast, pass, pending, result, first>>
    /\ UNCHANGED <<interpreter, ctl, stack, calls, raised>>

Reparse ==
    /\ phase = "assembled"
    /\ LET r == program(assembled[1])
       IN /\ ast' = IF r.ok THEN Some(r.val) ELSE ast
          /\ phase' = IF r.ok THEN "new"
                      ELSE IF r.panic THEN "panicked" ELSE "reparse_error"
          /\ pass' = IF r.ok THEN 2 ELSE pass
          /\ first' = IF r.ok THEN Some([result |-> result[1], comments |-> comments])
                      ELSE first
          /\ ev' = [op |-> "reparse", ok |-> r.ok]
    /\ UNCHANGED <<source, pending, result, assembled>>
    /\ UNCHANGED <<interpreter, ctl, stack, calls, raised>>

(***************************************************************************)
(* Interpreter::interp, one action per arm and per point at which an arm   *)
(* resumes after a nested call.  A frame of the stack is a call of interp  *)
(* waiting for a nested one.                                               *)
(***************************************************************************)
Top == stack[Len(stack)]
Pop == SubSeq(stack, 1, Len(stack) - 1)
Push(frame) == Append(stack, frame)
Entering(tag) == phase = "interp" /\ ctl.mode = "eval" /\ ctl.expr.tag = tag
Resuming(k) ==
    /\ phase = "interp" /\ ctl.mode = "ret" /\ ctl.res.ok
    /\ stack # <<>> /\ Top.k = k

\* The call in progress returns res; the first error is recorded as raised.
Return(res) ==
    /\ ctl' = Ret(res)
    /\ raised' = IF ~res.ok /\ raised = None
                 THEN Some([err |-> res.err, scope |-> scope',
                            comments |-> comments', console |-> console',
                            calls |-> calls'])
                 ELSE raised

\* An error wrapped with context on its way up.
propagate_with_context(err) == [msg |-> "evaluation failed", args |-> <<>>]

\* The `?` operator on a nested call's error: the error, as it is.
propagate(err) == err

\* An outcome of call_value ends the FunctionCall arm.
Finish(o) ==
    /\ console' = console \o o.printed
    /\ UNCHANGED <<comments, scope>>
    /\ IF o.panic
       THEN phase' = "panicked" /\ ctl' = Idle /\ raised' = raised
       ELSE phase' = phase /\ Return(o.res)

InterpBlock ==
    /\ Entering("Block")
    /\ calls' = calls + 1
    /\ UNCHANGED <<host, phase, interpreter>>
    /\ IF ctl.expr.exprs = <<>>
       THEN stack' = stack /\ Return(Err("a block can't be empty", <<>>))
       ELSE /\ stack' = Push([k |-> "Block", exprs |-> ctl.expr.exprs, i |-> 1])
            /\ ctl' = Eval(ctl.expr.exprs[1])
            /\ raised' = raised
    /\ ev' = [op |-> "block"]

BlockNext ==
    /\ Resuming("Block")
    /\ IF Top.i < Len(Top.exprs)
       THEN /\ stack' = Append(Pop, [Top EXCEPT !.i = @ + 1])
            /\ ctl' = Eval(Top.exprs[Top.i + 1])
       ELSE stack' = Pop /\ ctl' = ctl
    /\ ev' = [op |-> "block_next"]
    /\ UNCHANGED <<host, phase, interpreter, calls, raised>>

\* The Comment arm: Value::String(body.into()), body the node's own field.
interp_comment(table, c) == VString(c.body)

InterpComment ==
    /\ Entering("Comment")
    /\ calls' = calls + 1
    /\ UNCHANGED <<host, phase, interpreter, stack>>
    /\ Return(Ok(interp_comment(comments, ctl.expr)))
    /\ ev' = [op |-> "comment", node |-> ctl.expr,
              val |-> interp_comment(comments, ctl.expr)]

InterpAssignment ==
    /\ Entering("Assignment")
    /\ calls' = calls + 1
    /\ stack' = Push([k |-> "Assignment", ref |-> ctl.expr.ref])
    /\ ctl' = Eval(ctl.expr.expr)
    /\ ev' = [op |-> "assignment"]
    /\ UNCHANGED <<host, phase, interpreter, raised>>

\* The CommentRef arm with insert in place of get_mut: a missing name is created.
assign_comment_inserting(table, name, val) ==
    IF ~as_str(val).ok
    THEN [res |-> as_str(val), comments |-> table]
    ELSE [res |-> Ok(val),
          comments |-> [n \in DOMAIN table \cup {name} |->
                          IF n = name THEN as_str(val).val ELSE table[n]]]

\* The CommentRef arm of an assignment: [res, comments].
assign_comment(table, name, val) ==
    IF name \notin DOMAIN table
    THEN [res |-> Err("couldn't find comment with name", <<VString(name)>>),
          comments |-> table]
    ELSE IF ~as_str(val).ok
    THEN [res |-> as_str(val), comments |-> table]
    ELSE [res |-> Ok(val), comments |-> [table EXCEPT ![name] = as_str(val).val]]

\* An insert that leaves the names of Interpreter::new as they are.
assign_var_keeping_builtins(bindings, name, val) ==
    IF name \in DOMAIN BuiltinScope THEN bindings
    ELSE [n \in DOMAIN bindings \cup {name} |-> IF n = name THEN val ELSE bindings[n]]

\* The VarRef arm of an assignment: the scope after the insert.
assign_var(bindings, name, val) ==
    [n \in DOMAIN bindings \cup {name} |-> IF n = name THEN val ELSE bindings[n]]

Assign ==
    /\ Resuming("Assignment")
    /\ stack' = Pop
    /\ UNCHANGED <<host, phase, console, calls>>
    /\ LET val == ctl.res.val
           r == assign_comment(comments, Top.ref.name, val)
       IN IF Top.ref.tag = "CommentRef"
          THEN /\ comments' = r.comments
               /\ scope' = scope
               /\ Return(r.res)
               /\ ev' = [op |-> "assign_comment", name |-> Top.ref.name,
                         val |-> val, before |-> comments, res |-> r.res]
          ELSE /\ scope' = assign_var(scope, Top.ref.name, val)
               /\ comments' = comments
               /\ Return(Ok(val))
               /\ ev' = [op |-> "assign_var", name |-> Top.ref.name,
                         val |-> val, before |-> scope]

InterpIntLiteral ==
    /\ Entering("IntLiteral")
    /\ calls' = calls + 1
    /\ UNCHANGED <<host, phase, interpreter, stack>>
    /\ Return(Ok(VInt(ctl.expr.n)))
    /\ ev' = [op |-> "int"]

InterpRef ==
    /\ Entering("Ref")
    /\ calls' = calls + 1
    /\ UNCHANGED <<host, phase, interpreter, stack>>
    /\ Return(get_ref(scope, comments, ctl.expr.ref))
    /\ ev' = [op |-> "get_ref", ref |-> ctl.expr.ref,
              res |-> get_ref(scope, comments, ctl.expr.ref)]

InterpFunctionCall ==
    /\ Entering("FunctionCall")
    /\ calls' = calls + 1
    /\ UNCHANGED host
    /\ LET var == get_ref(scope, comments, ctl.expr.ref)
       IN IF ~var.ok
          THEN UNCHANGED <<phase, interpreter, stack>> /\ Return(var)
          ELSE IF ctl.expr.args = <<>>
          THEN stack' = stack /\ \E o \in call_value(var.val, <<>>) : Finish(o)
          ELSE /\ stack' = Push([k |-> "FunctionCall", var |-> var.val,
                                 args |-> ctl.expr.args, vals |-> <<>>])
               /\ ctl' = Eval(ctl.expr.args[1])
               /\ UNCHANGED <<phase, interpreter, raised>>
    /\ ev' = [op |-> "call", ref |-> ctl.expr.ref,
              res |-> get_ref(scope, comments, ctl.expr.ref)]

CallArg ==
    /\ Resuming("FunctionCall")
    /\ UNCHANGED <<host, calls>>
    /\ LET vals == Append(Top.vals, ctl.res.val)
       IN IF Len(vals) < Len(Top.args)
          THEN /\ stack' = Append(Pop, [Top EXCEPT !.vals = vals])
               /\ ctl' = Eval(Top.args[Len(vals) + 1])
               /\ UNCHANGED <<phase, interpreter, raised>>
               /\ ev' = [op |-> "call_arg"]
          ELSE /\ stack' = Pop
               /\ \E o \in call_value(Top.var, vals) :
                    /\ Finish(o)
                    /\ ev' = [op |-> "called", var |-> Top.var, args |-> vals,
                              panic |-> o.panic, res |-> o.res]

InterpWhile ==
    /\ Entering("While")
    /\ calls' = calls + 1
    /\ stack' = Push([k |-> "While", cond |-> ctl.expr.cond,
                      block |-> ctl.expr.block, count |-> Zero128,
                      at |-> "cond", conds |-> <<>>, bodies |-> 0])
    /\ ctl' = Eval(ctl.expr.cond)
    /\ ev' = [op |-> "while"]
    /\ UNCHANGED <<host, phase, interpreter, raised>>

\* A loop with an iteration limit of its own.
loop_continues_limited(b, count) == b /\ count[1] < 2

\* `while self.interp(cond)?.as_bool()?`: whether the body is entered.
loop_continues(b, count) == b

\* The counter returned one too high.
while_value_off_by_one(count) == VInt(WrappingAdd(count, IntOfNat(1)))

\* The value of the While arm once the condition is false.
while_value(count) == VInt(count)

WhileCond ==
    /\ Resuming("While")
    /\ Top.at = "cond"
    /\ UNCHANGED <<host, phase, interpreter, calls>>
    /\ LET b == as_bool(ctl.res.val)
       IN IF ~b.ok
          THEN /\ stack' = Pop
               /\ Return(b)
               /\ ev' = [op |-> "while_error", frame |-> Top]
          ELSE IF loop_continues(b.val, Top.count)
          THEN /\ Top.count[1] < MaxIter
               /\ stack' = Append(Pop, [Top EXCEPT !.at = "body",
                                                   !.conds = Append(@, b.val)])
               /\ ctl' = Eval(Top.block)
               /\ raised' = raised
               /\ ev' = [op |-> "while_body"]
          ELSE /\ stack' = Pop
               /\ Return(Ok(while_value(Top.count)))
               /\ ev' = [op |-> "while_done", node |-> While(Top.cond, Top.block),
                         val |-> while_value(Top.count),
                         conds |-> Append(Top.conds, b.val),
                         bodies |-> Top.bodies]

WhileBody ==
    /\ Resuming("While")
    /\ Top.at = "body"
    /\ stack' = Append(Pop, [Top EXCEPT !.at = "cond",
                                        !.count = WrappingAdd(@, IntOfNat(1)),
                                        !.bodies = @ + 1])
    /\ ctl' = Eval(Top.cond)
    /\ ev' = [op |-> "while_next"]
    /\ UNCHANGED <<host, phase, interpreter, calls, raised>>

InterpIf ==
    /\ Entering("If")
    /\ calls' = calls + 1
    /\ stack' = Push([k |-> "If", block |-> ctl.expr.block, at |-> "cond"])
    /\ ctl' = Eval(ctl.expr.cond)
    /\ ev' = [op |-> "if"]
    /\ UNCHANGED <<host, phase, interpreter, raised>>

IfCond ==
    /\ Resuming("If")
    /\ Top.at = "cond"
    /\ UNCHANGED <<host, phase, interpreter, calls>>
    /\ LET b == as_bool(ctl.res.val)
       IN IF ~b.ok
          THEN stack' = Pop /\ Return(b)
          ELSE IF b.val
          THEN /\ stack' = Append(Pop, [Top EXCEPT !.at = "body"])
               /\ ctl' = Eval(Top.block)
               /\ raised' = raised
          ELSE stack' = Pop /\ Return(Ok(VBool(b.val)))
    /\ ev' = [op |-> "if_cond"]

IfBody ==
    /\ Resuming("If")
    /\ Top.at = "body"
    /\ stack' = Pop
    /\ UNCHANGED <<host, phase, interpreter, calls>>
    /\ Return(Ok(VBool(TRUE)))
    /\ ev' = [op |-> "if_done"]

\* A nested call failed: the waiting call returns the error (`?`).
Propagate ==
    /\ phase = "interp" /\ ctl.mode = "ret" /\ ~ctl.res.ok
    /\ stack # <<>>
    /\ stack' = Pop
    /\ ctl' = Ret([ok |-> FALSE, err |-> propagate(ctl.res.err)])
    /\ ev' = [op |-> "propagate", frame |-> Top]
    /\ UNCHANGED <<host, phase, interpreter, calls, raised>>

\* The top-level call returns to the host.
Evaluated ==
    /\ phase = "interp" /\ ctl.mode = "ret"
    /\ stack = <<>>
    /\ result' = Some(ctl.res)
    /\ phase' = "evaluated"
    /\ ctl' = Idle
    /\ ev' = [op |-> "evaluated"]
    /\ UNCHANGED <<source, ast, pass, pending, assembled, first>>
    /\ UNCHANGED <<interpreter, stack, calls, raised>>

Interp ==
    \/ InterpBlock \/ BlockNext \/ InterpComment \/ InterpAssignment \/ Assign
    \/ InterpIntLiteral \/ InterpRef \/ InterpFunctionCall \/ CallArg
    \/ InterpWhile \/ WhileCond \/ WhileBody \/ InterpIf \/ IfCond \/ IfBody
    \/ Propagate \/ Evaluated

Next == Parse \/ New \/ Seed \/ Start \/ Interp \/ Reassemble \/ Reparse
Spec == Init /\ [][Next]_vars

(***************************************************************************)
(* Properties                                                              *)
(***************************************************************************)

\* Every node of a tree, in the order of the text.
RECURSIVE Nodes(_)
NodesOfEach(exprs) == Concat([i \in 1..Len(exprs) |-> Nodes(exprs[i])])
Nodes(e) ==
    <<e>> \o
    CASE e.tag = "Block" -> NodesOfEach(e.exprs)
      [] e.tag = "Assignment" -> Nodes(e.expr)
      [] e.tag = "FunctionCall" -> NodesOfEach(e.args)
      [] e.tag \in {"While", "If"} -> Nodes(e.cond) \o Nodes(e.block)
      [] OTHER -> <<>>

\* Two Comment nodes of the tree carry the same name.
HasDuplicateName(prog) ==
    LET ns == Nodes(prog.block)
    IN \E i, j \in 1..Len(ns) :
          /\ i < j
          /\ ns[i].tag = "Comment" /\ ns[j].tag = "Comment"
          /\ ns[i].name # None /\ ns[i].name = ns[j].name

\* The names of the tree's named Comment nodes.
NamesOf(prog) ==
    LET ns == Nodes(prog.block)
    IN {ns[i].name[1] : i \in {j \in 1..Len(ns) :
                                 ns[j].tag = "Comment" /\ ns[j].name # None}}

Evaluating == phase \in {"interp", "evaluated", "assembled", "reparse_error"}

\* C1: when the tree is reassembled after an evaluation, the text emitted for
\* a named Comment node is the lines of the body the comment table holds for
\* that name at that moment (so an overwrite by let #c shows in the output).
C1_ReassembleEmitsStoredBody ==
    ev.op = "assemble" =>
        \A i \in 1..Len(ev.nodes) :
            (ev.nodes[i].name # None /\ ev.nodes[i].name[1] \in DOMAIN comments)
            => ev.emitted[i] =
                 assemble_comment([ev.nodes[i] EXCEPT
                                     !.body = comments[ev.nodes[i].name[1]]])

\* C2: the text reassembled from a parsed program parses again, and seeding
\* and evaluating the second tree gives the result and the comment table of
\* the first run.
C2_RoundTrip ==
    /\ (ev.op = "reparse" /\ source # None) => ev.ok
    /\ (pass = 2 /\ phase \in {"evaluated", "seed_error"})
       => /\ result = Some(first[1].result)
          /\ comments = first[1].comments

\* C3 as stated: let #c = e succeeds only for a String value and a name that
\* is a key; a value that is not a String fails with a type mismatch; a name
\* that is not a key fails with an undefined reference; a failure leaves the
\* table as it was; evaluation never changes the key set.
C3_AssignCommentAsStated ==
    /\ ev.op = "assign_comment" =>
         /\ ev.res.ok => (ev.name \in DOMAIN ev.before /\ ev.val.tag = "String")
         /\ ev.val.tag # "String"
            => (~ev.res.ok /\ ev.res.err.msg = "is not a String")
         /\ ev.name \notin DOMAIN ev.before
            => (~ev.res.ok /\ ev.res.err.msg = "couldn't find comment with name")
         /\ ~ev.res.ok => comments = ev.before
    /\ Evaluating => DOMAIN comments = NamesOf(ast[1])

\* C3 amended: as C3, but the name is looked up first: a name that is not a
\* key fails with an undefined reference whatever the value is, and the type
\* mismatch is the failure of a value that is not a String for a name that
\* is a key.
C3_AssignComment ==
    /\ ev.op = "assign_comment" =>
         /\ ev.res.ok => /\ ev.name \in DOMAIN ev.before
                         /\ ev.val.tag = "String"
                         /\ comments = [ev.before EXCEPT ![ev.name] = ev.val.s]
         /\ (ev.name \in DOMAIN ev.before /\ ev.val.tag # "String")
            => (~ev.res.ok /\ ev.res.err.msg = "is not a String")
         /\ ev.name \notin DOMAIN ev.before
            => (~ev.res.ok /\ ev.res.err.msg = "couldn't find comment with name")
         /\ ~ev.res.ok => comments = ev.before
    /\ Evaluating => DOMAIN comments = NamesOf(ast[1])

\* A value that is not a String was assigned to a name that is not a key.
C3_Witness ==
    /\ ev.op = "assign_comment"
    /\ ev.name \notin DOMAIN ev.before
    /\ ev.val.tag # "String"
    /\ ~ev.res.ok

\* C4: add_comment of a named comment whose name is a key fails with a
\* duplicate name and leaves the table (the first body) as it was; an
\* anonymous comment always succeeds and changes nothing; so a tree with two
\* Comment nodes of one name fails in seeding and is never evaluated.
C4_SeedingRejectsDuplicates ==
    /\ ev.op = "add_comment" =>
         LET c == ev.comment
         IN /\ (c.name # None /\ c.name[1] \in DOMAIN ev.before)
               => /\ ~ev.res.ok
                  /\ ev.res.err.msg = "duplicate comment"
                  /\ comments = ev.before
            /\ c.name = None => (ev.res.ok /\ comments = ev.before)
            /\ (c.name # None /\ c.name[1] \notin DOMAIN ev.before)
               => /\ ev.res.ok
                  /\ DOMAIN comments = DOMAIN ev.before \cup {c.name[1]}
                  /\ comments[c.name[1]] = c.body
    /\ (ast # None /\ HasDuplicateName(ast[1]) /\ ~HasIf(ast[1].block))
       => (~Evaluating /\ calls = 0)

\* Seeding has stopped at the second Comment node of a name, inside a While.
C4_Witness ==
    /\ phase = "seed_error"
    /\ ev.op = "add_comment"
    /\ ev.comment.name # None
    /\ ev.comment.name[1] \in DOMAIN ev.before
    /\ comments[ev.comment.name[1]] # ev.comment.body
    /\ \E i \in 1..Len(ast[1].block.exprs) : ast[1].block.exprs[i].tag = "While"

\* C5: a While that returns normally returns Int(n), n the number of times
\* the body was evaluated; the condition was evaluated n + 1 times, true the
\* first n times and false the last; a While whose condition is false at
\* once returns 0 without evaluating its body.
C5_WhileReturnsCount ==
    ev.op = "while_done" =>
        /\ ev.val = VInt(IntOfNat(ev.bodies))
        /\ Len(ev.conds) = ev.bodies + 1
        /\ \A i \in 1..ev.bodies : ev.conds[i] = TRUE
        /\ ev.conds[ev.bodies + 1] = FALSE
        /\ ctl = Ret(Ok(ev.val))

\* A While has returned after two evaluations of its body.
C5_Witness ==
    /\ ev.op = "while_done"
    /\ ev.bodies = 2
    /\ ev.val = VInt(IntOfNat(2))

\* C6 as stated: a While whose condition has yielded true every time it was
\* evaluated is never left, with a value or with an error, whatever its body
\* block is.
C6_TrueLoopNeverReturns ==
    /\ ev.op = "while_done" => \E i \in 1..Len(ev.conds) : ev.conds[i] = FALSE
    /\ ~(/\ ev.op = "propagate"
         /\ ev.frame.k = "While"
         /\ ev.frame.at = "body"
         /\ \A i \in 1..Len(ev.frame.conds) : ev.frame.conds[i] = TRUE)

\* C6 amended: a While has no iteration limit of its own: it returns a value
\* only when its condition has just yielded false, and while every condition
\* has yielded true it is left only by an error of its body, which it
\* returns unchanged (an empty body block fails at once).
C6_TrueLoopStopsOnlyOnError ==
    /\ ev.op = "while_done" => ev.conds[Len(ev.conds)] = FALSE
    /\ (ev.op = "propagate" /\ ev.frame.k = "While" /\ ev.frame.at = "body")
       => /\ \A i \in 1..Len(ev.frame.conds) : ev.frame.conds[i] = TRUE
          /\ ~ctl.res.ok
          /\ raised # None
          /\ ctl.res.err = raised[1].err

\* A While whose condition has been true every time is about to enter its
\* body again after as many iterations as the model runs.
C6_Witness ==
    /\ phase = "interp"
    /\ stack # <<>>
    /\ Top.k = "While" /\ Top.at = "cond"
    /\ Top.bodies = MaxIter
    /\ Len(Top.conds) = MaxIter
    /\ \A i \in 1..Len(Top.conds) : Top.conds[i] = TRUE
    /\ ctl = Ret(Ok(VBool(TRUE)))

\* The i128 index is a position of the string: 0 <= i < len.
InRange(i, len) == (\A k \in 2..NLimbs : i[k] = 0) /\ i[1] < len

\* C7: calling a String with an Int index i returns the one-character String
\* at position i when 0 <= i < length, and Bool(false) for every other i128.
C7_StringIndexTotal ==
    (/\ ev.op = "called"
     /\ ev.var.tag = "String"
     /\ ev.args # <<>>
     /\ ev.args[1].tag = "Int")
    => ev.res = IF InRange(ev.args[1].n, Len(ev.var.s))
                THEN Ok(VString(<<ev.var.s[ev.args[1].n[1] + 1]>>))
                ELSE Ok(VBool(FALSE))

\* C8: a reference to #help never fails and yields the help text built from
\* the scope it is evaluated in, whether or not the table has a key help.
C8_HelpIsSynthesized ==
    (ev.op = "get_ref" /\ ev.ref = CommentRef(Chars("help")))
    => ev.res = Ok(VString(generate_help_text(scope)))

\* C9: a named Comment node whose name is a key evaluates to the body the
\* table holds for the name, as the reference #name would.
C9_CommentNodeReadsTable ==
    (/\ ev.op = "comment"
     /\ ev.node.name # None
     /\ ev.node.name[1] \in DOMAIN comments)
    => Ok(ev.val) = get_ref(scope, comments, CommentRef(ev.node.name[1]))

\* C10: once a node has failed, the error goes up unchanged to the caller of
\* the top-level evaluation, no further node is evaluated, and the scope, the
\* comment table and the console stay as they were at the failure: nothing
\* done before it is undone.
C10_FailureKeepsEffects ==
    (raised # None /\ phase \in {"interp", "evaluated"})
    => /\ scope = raised[1].scope
       /\ comments = raised[1].comments
       /\ console = raised[1].console
       /\ calls = raised[1].calls
       /\ phase = "interp" => ctl = Ret([ok |-> FALSE, err |-> raised[1].err])
       /\ phase = "evaluated" => result = Some([ok |-> FALSE, err |-> raised[1].err])

\* An evaluation has failed after a binding and a comment overwrite, with a
\* later sibling left unevaluated.
C10_Witness ==
    /\ phase = "evaluated"
    /\ ~result[1].ok
    /\ Chars("x") \in DOMAIN scope
    /\ Chars("y") \notin DOMAIN scope
    /\ Chars("c") \in DOMAIN comments
    /\ comments[Chars("c")] = Chars("new")


\* A step of an evaluation that is a variable assignment binds the name to
\* the value in the scope and leaves every other name as it was; any other
\* step of an evaluation leaves the scope as it was.
ScopeStep ==
    phase = "interp" =>
        IF ev'.op = "assign_var"
        THEN /\ ev'.before = scope
             /\ DOMAIN scope' = DOMAIN scope \cup {ev'.name}
             /\ scope'[ev'.name] = ev'.val
             /\ \A n \in DOMAIN scope \ {ev'.name} : scope'[n] = scope[n]
        ELSE scope' = scope

\* C11: there is one scope: a variable assignment, wherever it is evaluated
\* (While or If body, assignment value, call argument), inserts or overwrites
\* the name in the scope every node reads, a built-in name included; no other
\* step changes the scope, so no construct removes or restores a binding when
\* it finishes and the set of bound names only grows.
C11_OneFlatScope == [][ScopeStep]_vars

\* The name add, overwritten inside an If body, is read at the top level
\* after the If has finished and yields the value assigned there.
C11_Witness ==
    /\ phase = "interp"
    /\ Len(stack) = 1
    /\ ev.op = "get_ref"
    /\ ev.ref = VarRef(Chars("add"))
    /\ ev.res = Ok(VInt(IntOfNat(7)))
    /\ ast[1].block.exprs[1].tag = "If"
    /\ BuiltinScope[Chars("add")] # scope[Chars("add")]

====
